---- MODULE Spec2Model ----
(***************************************************************************)
(* Model of the zoltaranwish contract (src/contracts/zoltaranwish.cpp):    *)
(* the commit/reveal game, its treasury bookkeeping, wish purchases and    *)
(* the expiry sweep.  One action per contract action or notification       *)
(* handler.  A failed eosio check() aborts the transaction, so a failing   *)
(* call leaves every table as it was; the model records the message of     *)
(* the failed check in the history variable last.  Every call is made with *)
(* the authority its require_auth asks for: a call without it aborts like  *)
(* any other failed check and changes nothing.                             *)
(***************************************************************************)
EXTENDS Integers, Sequences, FiniteSets, TLC

(***************************************************************************)
(* Fixed-width unsigned integers.  TLC's integers are 32-bit signed, so a  *)
(* uint32_t is a little-endian sequence of two 16-bit limbs and a uint64_t *)
(* one of four; Add and Sub wrap at the width, as the C++ operators do.    *)
(***************************************************************************)
Base == 2^16

U32(n) == << n % Base, n \div Base >>

U64(n) == << n % Base, n \div Base, 0, 0 >>

RECURSIVE AddLimbs(_, _, _, _)
AddLimbs(a, b, i, c) ==
  IF i > Len(a) THEN << >>
  ELSE LET s == a[i] + b[i] + c
       IN  << s % Base >> \o AddLimbs(a, b, i + 1, s \div Base)

Add(a, b) == AddLimbs(a, b, 1, 0)

RECURSIVE SubLimbs(_, _, _, _)
SubLimbs(a, b, i, c) ==
  IF i > Len(a) THEN << >>
  ELSE LET s == a[i] - b[i] - c
       IN  << s % Base >> \o SubLimbs(a, b, i + 1, IF s < 0 THEN 1 ELSE 0)

Sub(a, b) == SubLimbs(a, b, 1, 0)

Less(a, b) ==
  \E i \in 1..Len(a) :
    /\ a[i] < b[i]
    /\ \A j \in (i + 1)..Len(a) : a[j] = b[j]

LessEq(a, b) == a = b \/ Less(a, b)

RECURSIVE MulLimbs(_, _, _, _)
MulLimbs(a, m, i, c) ==
  IF i > Len(a) THEN << >>
  ELSE LET s == a[i] * m + c
       IN  << s % Base >> \o MulLimbs(a, m, i + 1, s \div Base)

Mul(a, m) == MulLimbs(a, m, 1, 0)

(***************************************************************************)
(* Program constants.                                                      *)
(***************************************************************************)
OUTCOME_WISH_GRANTED == 0
OUTCOME_TOKENS_250 == 1
OUTCOME_TOKENS_500 == 2
OUTCOME_TOKENS_1000 == 3
OUTCOME_FREE_SPIN == 4
OUTCOME_TRY_AGAIN == 5

\* 25000000000, 50000000000 and 100000000000 as uint64_t limbs
TOKENS_250 == << 47616, 53789, 5, 0 >>
TOKENS_500 == << 29696, 42043, 11, 0 >>
TOKENS_1000 == << 59392, 18550, 23, 0 >>

WISH_TYPE_FREE == 0
WISH_TYPE_PURCHASED == 1

COMMIT_EXPIRY_SECONDS == 3600

\* the scale of the probability weights and of the draw
PROB_SCALE == 10000

\* the largest wish count one purchase may ask for
MAX_WISH_COUNT == 1000

SECONDS_PER_BLOCK == 2

SECONDS_PER_DAY == 86400

(***************************************************************************)
(* Bounds of the model and the inputs the environment chooses from.        *)
(***************************************************************************)
\* commits ever created (caps next_commit_id)
MaxCommits == 2
\* purchased-wish credits one account may hold after a purchase
MaxCredits == 1
\* tracked treasury after a funding transfer, in units of TOKENS_250
MaxTreasury == 1
\* the clock runs over the expiry windows after T0: each window's first
\* second and, from the second window on, the second after it
MaxHour == 1

\* 2023-11-15 00:00:00 UTC, the first second of a day and of a block
T0 == 19676 * SECONDS_PER_DAY

TimePoints ==
  { T0 + (COMMIT_EXPIRY_SECONDS * h) : h \in 0..MaxHour }
    \cup { T0 + (COMMIT_EXPIRY_SECONDS * h) + 1 : h \in 1..MaxHour }

Self == "zoltaranwish"
Players == {"alice", "bob"}
Admins == {"admin"}

\* the weights of the source's comments (lines 29-35)
DefaultWeights == << U32(2000), U32(1000), U32(800), U32(200), U32(1000) >>
WeightChoices == { DefaultWeights }

VARIABLES
  now,           \* current_time_point().sec_since_epoch()
  conf_table,    \* the config singleton: << >> or << config >>
  tokens,        \* tokenprices table, by symbol
  users,         \* users table, by account
  commits,       \* commits table: a set of rows
  history,       \* gamehistory table, in id order
  leaderboard,   \* leaderboard table, by player
  glob_table,    \* the globals singleton: << >> or << globals >>
  last,          \* the last call: its action and the failed check's message
  resolved       \* the rows erased so far, in order: their id and the eraser

tables == << conf_table, tokens, users, commits, history, leaderboard, glob_table, resolved >>

vars == << now, conf_table, tokens, users, commits, history, leaderboard,
           glob_table, last, resolved >>

Ok(op) == [op |-> op, err |-> ""]

Fail(op, msg) == [op |-> op, err |-> msg]

\* the first check that fails decides the message; "" when all pass
RECURSIVE FirstError(_)
FirstError(checks) ==
  IF checks = << >> THEN ""
  ELSE IF ~checks[1][1] THEN checks[1][2]
  ELSE FirstError(Tail(checks))

Has(table, key) == key \in DOMAIN table

Put(table, key, row) == [k \in DOMAIN table \cup {key} |->
                          IF k = key THEN row ELSE table[k]]

config0 ==
  [admin |-> "", arcade_contract |-> "", arcade_symbol |-> "",
   treasury_balance |-> U64(0), paused |-> FALSE,
   prob_win |-> U32(0), prob_tokens_250 |-> U32(0), prob_tokens_500 |-> U32(0),
   prob_tokens_1000 |-> U32(0), prob_free_spin |-> U32(0)]

globals0 == [next_commit_id |-> 1, next_result_id |-> 1]

Init ==
  /\ now = T0
  /\ conf_table = << >>
  /\ tokens = << >>
  /\ users = << >>
  /\ commits = {}
  /\ history = << >>
  /\ leaderboard = << >>
  /\ glob_table = << >>
  /\ last = Ok("init")
  /\ resolved = << >>

\* time passes between transactions
Tick(t) ==
  /\ t > now
  /\ now' = t
  /\ last' = Ok("tick")
  /\ UNCHANGED << tables, resolved >>

current_block == now \div SECONDS_PER_BLOCK

current_day_number == now \div SECONDS_PER_DAY

\* uint32_t total = prob_win + ... + prob_free_spin
WeightTotal(w) == Add(Add(Add(Add(w[1], w[2]), w[3]), w[4]), w[5])

setconfig_fresh(admin, arcade_contract, arcade_symbol, w) ==
  LET err == FirstError(<<
          << LessEq(WeightTotal(w), U32(PROB_SCALE)), "Probabilities exceed 100%" >> >>)
  IN  IF err # ""
      THEN last' = Fail("setconfig", err) /\ UNCHANGED << now, tables, resolved >>
      ELSE /\ conf_table' = << [config0 EXCEPT
                  !.admin = admin, !.arcade_contract = arcade_contract,
                  !.arcade_symbol = arcade_symbol, !.paused = FALSE,
                  !.prob_win = w[1], !.prob_tokens_250 = w[2],
                  !.prob_tokens_500 = w[3], !.prob_tokens_1000 = w[4],
                  !.prob_free_spin = w[5]] >>
           /\ last' = Ok("setconfig")
           /\ UNCHANGED << now, tokens, users, commits, history, leaderboard,
                           glob_table, resolved >>

\* lines 178-208
setconfig(admin, arcade_contract, arcade_symbol, w) ==
  LET err == FirstError(<<
          << LessEq(WeightTotal(w), U32(PROB_SCALE)), "Probabilities exceed 100%" >> >>)
      conf == IF conf_table # << >> THEN conf_table[1] ELSE config0
  IN  IF err # ""
      THEN last' = Fail("setconfig", err) /\ UNCHANGED << now, tables, resolved >>
      ELSE /\ conf_table' = << [conf EXCEPT
                  !.admin = admin, !.arcade_contract = arcade_contract,
                  !.arcade_symbol = arcade_symbol, !.paused = FALSE,
                  !.prob_win = w[1], !.prob_tokens_250 = w[2],
                  !.prob_tokens_500 = w[3], !.prob_tokens_1000 = w[4],
                  !.prob_free_spin = w[5]] >>
           /\ last' = Ok("setconfig")
           /\ UNCHANGED << now, tokens, users, commits, history, leaderboard,
                           glob_table, resolved >>

setpause(paused) ==
  LET err == FirstError(<<
          << conf_table # << >>, "Contract not configured" >> >>)
  IN  IF err # ""
      THEN last' = Fail("setpause", err) /\ UNCHANGED << now, tables, resolved >>
      ELSE /\ conf_table' = << [conf_table[1] EXCEPT !.paused = paused] >>
           /\ last' = Ok("setpause")
           /\ UNCHANGED << now, tokens, users, commits, history, leaderboard,
                           glob_table, resolved >>

settoken(sym, token_contract, price_per_wish, bonus_bps, enabled) ==
  LET err == FirstError(<<
          << conf_table # << >>, "Contract not configured" >> >>)
      row == [sym |-> sym, contract |-> token_contract,
              price_per_wish |-> price_per_wish, bonus_bps |-> bonus_bps,
              enabled |-> enabled]
  IN  IF err # ""
      THEN last' = Fail("settoken", err) /\ UNCHANGED << now, tables, resolved >>
      ELSE /\ tokens' = Put(tokens, sym, row)
           /\ last' = Ok("settoken")
           /\ UNCHANGED << now, conf_table, users, commits, history,
                           leaderboard, glob_table, resolved >>

(***************************************************************************)
(* Strings are sequences of character codes.                               *)
(***************************************************************************)
\* eosio::sha256 stands behind this digest: a deterministic function of the
\* bytes, of which the contract reads the first four.
RECURSIVE Roll(_, _, _, _)
Roll(str, i, h, m) ==
  IF i > Len(str) THEN h ELSE Roll(str, i + 1, (h * m + str[i]) % 65521, m)

sha256(str) ==
  LET a == Roll(str, 1, 7, 131)
      b == Roll(str, 1, 11, 137)
  IN  << a \div 256, a % 256, b \div 256, b % 256 >>

\* std::to_string of an unsigned number
RECURSIVE to_string(_)
to_string(n) ==
  IF n < 10 THEN << 48 + n >> ELSE to_string(n \div 10) \o << 48 + (n % 10) >>

\* name::to_string
name_to_string(player) ==
  CASE player = "alice" -> << 97, 108, 105, 99, 101 >>
    [] player = "bob" -> << 98, 111, 98 >>
    [] OTHER -> << >>

\* the players commit to the secret "s" with the content id "Q"
CommitHashes == { sha256(<< 115 >> \o << 81 >>) }
TaposChoices == {14}
WishTypes == {WISH_TYPE_FREE, WISH_TYPE_PURCHASED, 2}

user0(player) ==
  [account |-> player, purchased_wishes |-> 0, last_free_day |-> 0,
   total_wishes |-> 0, total_wins |-> 0, tokens_won |-> U64(0)]

NotPaused_skipped(table) == TRUE

\* lines 273 and 343: the pause flag of the configuration is not set
NotPaused(table) == table # << >> /\ ~table[1].paused

CommitUsers_noDay(player, wish_type) ==
  IF wish_type = WISH_TYPE_FREE
  THEN IF ~Has(users, player) THEN Put(users, player, user0(player)) ELSE users
  ELSE [users EXCEPT ![player].purchased_wishes = @ - 1]

CommitUsers_noCharge(player, wish_type) ==
  IF wish_type = WISH_TYPE_FREE
  THEN IF ~Has(users, player)
       THEN Put(users, player,
                [user0(player) EXCEPT !.last_free_day = current_day_number])
       ELSE [users EXCEPT ![player].last_free_day = current_day_number]
  ELSE users

\* lines 279-305: the account after the wish has been taken
CommitUsers(player, wish_type) ==
  IF wish_type = WISH_TYPE_FREE
  THEN IF ~Has(users, player)
       THEN Put(users, player,
                [user0(player) EXCEPT !.last_free_day = current_day_number])
       ELSE [users EXCEPT ![player].last_free_day = current_day_number]
  ELSE [users EXCEPT ![player].purchased_wishes = @ - 1]

\* the byplayer index: the rows of the player
PendingOf(player) == { c \in commits : c.player = player }

NoPending_skipped(player) == TRUE

\* lines 310-311
NoPending(player) == PendingOf(player) = {}

PENDING_COMMIT == "You have a pending commit - reveal or wait for expiry"

Aborted_kept(before, written) == written

\* a failed check aborts the transaction: the table keeps the rows it had
\* before the call, not the ones the call has written so far
Aborted(before, written) == before

TakeCommitId_stuck(glob) == glob

\* lines 326-327
TakeCommitId(glob) == [glob EXCEPT !.next_commit_id = @ + 1]

commit(player, commit_hash, wish_type) ==
  LET err == FirstError(<<
          << conf_table # << >>, "Contract not configured" >>,
          << NotPaused(conf_table), "Game is paused" >>,
          << wish_type # WISH_TYPE_FREE \/ ~Has(users, player)
               \/ users[player].last_free_day < current_day_number,
             "Free wish already used today" >>,
          << wish_type = WISH_TYPE_FREE \/ Has(users, player), "User not found" >>,
          << wish_type = WISH_TYPE_FREE
               \/ (Has(users, player) /\ users[player].purchased_wishes > 0),
             "No purchased wishes available" >>,
          << NoPending(player), PENDING_COMMIT >> >>)
      glob == IF glob_table # << >> THEN glob_table[1] ELSE globals0
      row == [id |-> glob.next_commit_id, player |-> player,
              commit_hash |-> commit_hash, block_num |-> current_block,
              wish_type |-> wish_type, timestamp |-> now]
  IN  IF err # ""
      THEN /\ last' = Fail("commit", err)
           /\ users' = Aborted(users, IF err = PENDING_COMMIT
                                      THEN CommitUsers(player, wish_type)
                                      ELSE users)
           /\ UNCHANGED << now, conf_table, tokens, commits, history,
                           leaderboard, glob_table, resolved >>
      ELSE /\ glob.next_commit_id <= MaxCommits
           /\ users' = CommitUsers(player, wish_type)
           /\ commits' = commits \cup {row}
           /\ glob_table' = << TakeCommitId(glob) >>
           /\ last' = Ok("commit")
           /\ UNCHANGED << now, conf_table, tokens, history, leaderboard,
                           resolved >>

\* lines 366-370: the first four digest bytes as a big-endian uint32_t, mod
\* 10000 (2^24 = 7216 and 2^16 = 5536 mod 10000)
random_value(client_secret, tapos, player) ==
  LET hash_data == sha256(client_secret \o to_string(tapos) \o name_to_string(player))
  IN  (hash_data[1] * 7216 + hash_data[2] * 5536 + hash_data[3] * 256
         + hash_data[4]) % PROB_SCALE

Outcome_inclusive(conf, draw) ==
  LET d  == U32(draw)
      c1 == conf.prob_win
      c2 == Add(c1, conf.prob_tokens_250)
      c3 == Add(c2, conf.prob_tokens_500)
      c4 == Add(c3, conf.prob_tokens_1000)
      c5 == Add(c4, conf.prob_free_spin)
  IN  IF LessEq(d, c1) THEN << OUTCOME_WISH_GRANTED, U64(0) >>
      ELSE IF LessEq(d, c2) THEN << OUTCOME_TOKENS_250, TOKENS_250 >>
      ELSE IF LessEq(d, c3) THEN << OUTCOME_TOKENS_500, TOKENS_500 >>
      ELSE IF LessEq(d, c4) THEN << OUTCOME_TOKENS_1000, TOKENS_1000 >>
      ELSE IF LessEq(d, c5) THEN << OUTCOME_FREE_SPIN, U64(0) >>
      ELSE << OUTCOME_TRY_AGAIN, U64(0) >>

Outcome_treasuryGated(conf, draw) ==
  LET d  == U32(draw)
      c1 == conf.prob_win
      c2 == Add(c1, conf.prob_tokens_250)
      c3 == Add(c2, conf.prob_tokens_500)
      c4 == Add(c3, conf.prob_tokens_1000)
      c5 == Add(c4, conf.prob_free_spin)
      funded(t) == LessEq(t, conf.treasury_balance)
  IN  IF Less(d, c1) THEN << OUTCOME_WISH_GRANTED, U64(0) >>
      ELSE IF Less(d, c2) /\ funded(TOKENS_250)
           THEN << OUTCOME_TOKENS_250, TOKENS_250 >>
      ELSE IF Less(d, c3) /\ funded(TOKENS_500)
           THEN << OUTCOME_TOKENS_500, TOKENS_500 >>
      ELSE IF Less(d, c4) /\ funded(TOKENS_1000)
           THEN << OUTCOME_TOKENS_1000, TOKENS_1000 >>
      ELSE IF Less(d, c5) THEN << OUTCOME_FREE_SPIN, U64(0) >>
      ELSE << OUTCOME_TRY_AGAIN, U64(0) >>

\* lines 372-406: << result_code, tokens_won >> of a draw under a configuration
Outcome(conf, draw) ==
  LET d  == U32(draw)
      c1 == conf.prob_win
      c2 == Add(c1, conf.prob_tokens_250)
      c3 == Add(c2, conf.prob_tokens_500)
      c4 == Add(c3, conf.prob_tokens_1000)
      c5 == Add(c4, conf.prob_free_spin)
  IN  IF Less(d, c1) THEN << OUTCOME_WISH_GRANTED, U64(0) >>
      ELSE IF Less(d, c2) THEN << OUTCOME_TOKENS_250, TOKENS_250 >>
      ELSE IF Less(d, c3) THEN << OUTCOME_TOKENS_500, TOKENS_500 >>
      ELSE IF Less(d, c4) THEN << OUTCOME_TOKENS_1000, TOKENS_1000 >>
      ELSE IF Less(d, c5) THEN << OUTCOME_FREE_SPIN, U64(0) >>
      ELSE << OUTCOME_TRY_AGAIN, U64(0) >>

\* lines 408-432
RevealUsers(player, result_code, tokens_won) ==
  LET wins == IF result_code = OUTCOME_WISH_GRANTED THEN 1 ELSE 0
      spin == IF result_code = OUTCOME_FREE_SPIN THEN 1 ELSE 0
  IN  IF ~Has(users, player)
      THEN Put(users, player,
               [user0(player) EXCEPT !.purchased_wishes = spin,
                  !.total_wishes = 1, !.total_wins = wins,
                  !.tokens_won = tokens_won])
      ELSE [users EXCEPT ![player].total_wishes = @ + 1,
                         ![player].total_wins = @ + wins,
                         ![player].purchased_wishes = @ + spin,
                         ![player].tokens_won = Add(@, tokens_won)]

update_leaderboard_overwrite(player, wins_delta, tokens_delta) ==
  Put(leaderboard, player,
      [player |-> player, wins |-> wins_delta, tokens_won |-> tokens_delta])

\* lines 630-646
update_leaderboard(player, wins_delta, tokens_delta) ==
  IF ~Has(leaderboard, player)
  THEN Put(leaderboard, player,
           [player |-> player, wins |-> wins_delta, tokens_won |-> tokens_delta])
  ELSE [leaderboard EXCEPT ![player].wins = @ + wins_delta,
                           ![player].tokens_won = Add(@, tokens_delta)]

\* the rows with primary key commit_id (none or one)
FindCommit(commit_id) == { c \in commits : c.id = commit_id }

BlockPassed_sameBlock(row) == current_block >= row.block_num

BlockPassed_inWindow(row) ==
  /\ current_block > row.block_num
  /\ now - row.timestamp <= COMMIT_EXPIRY_SECONDS

\* line 352
BlockPassed(row) == current_block > row.block_num

HashMatches_skipped(row, client_secret, wish_ipfs_cid) == TRUE

\* lines 355-357
HashMatches(row, client_secret, wish_ipfs_cid) ==
  row.commit_hash = sha256(client_secret \o wish_ipfs_cid)

\* lines 456-470: the configuration after the payout
Payout(conf, tokens_won) ==
  IF tokens_won # U64(0)
  THEN << [conf EXCEPT !.treasury_balance = Sub(@, tokens_won)] >>
  ELSE conf_table

AppendResult_winsOnly(row) ==
  IF row.result_code = OUTCOME_TRY_AGAIN THEN history ELSE Append(history, row)

\* lines 443-451
AppendResult(row) == Append(history, row)

EraseCommit_kept(row) == commits

\* line 473
EraseCommit(row) == commits \ {row}

reveal(player, commit_id, client_secret, wish_ipfs_cid, tapos) ==
  LET found == FindCommit(commit_id)
      row == CHOOSE c \in found : TRUE
      err == FirstError(<<
          << conf_table # << >>, "Contract not configured" >>,
          << NotPaused(conf_table), "Game is paused" >>,
          << found # {}, "Commit not found" >>,
          << found # {} /\ row.player = player, "Not your commit" >>,
          << found # {} /\ BlockPassed(row), "Must wait at least 1 block" >>,
          << found # {} /\ HashMatches(row, client_secret, wish_ipfs_cid),
             "Hash mismatch - invalid secret or CID" >> >>)
      conf == conf_table[1]
      out == Outcome(conf, random_value(client_secret, tapos, player))
      result_code == out[1]
      tokens_won == out[2]
      glob == IF glob_table # << >> THEN glob_table[1] ELSE globals0
  IN  IF err # ""
      THEN last' = Fail("reveal", err) /\ UNCHANGED << now, tables, resolved >>
      ELSE /\ users' = RevealUsers(player, result_code, tokens_won)
           /\ leaderboard' =
                IF result_code = OUTCOME_WISH_GRANTED \/ tokens_won # U64(0)
                THEN update_leaderboard(player,
                       IF result_code = OUTCOME_WISH_GRANTED THEN 1 ELSE 0,
                       tokens_won)
                ELSE leaderboard
           /\ history' = AppendResult(
                [id |-> glob.next_result_id, player |-> player,
                 result_code |-> result_code, tokens_won |-> tokens_won,
                 wish_ipfs_cid |-> wish_ipfs_cid, timestamp |-> now])
           /\ glob_table' = << [glob EXCEPT !.next_result_id = @ + 1] >>
           /\ conf_table' = Payout(conf, tokens_won)
           /\ commits' = EraseCommit(row)
           /\ resolved' = Append(resolved, [id |-> row.id, by |-> "reveal"])
           /\ last' = Ok("reveal")
           /\ UNCHANGED << now, tokens >>

\* "WISHES:", "TREASURY", "treasury", "fund"
WISHES_PREFIX == << 87, 73, 83, 72, 69, 83, 58 >>
TreasuryMemos ==
  { << 84, 82, 69, 65, 83, 85, 82, 89 >>,
    << 116, 114, 101, 97, 115, 117, 114, 121 >>,
    << 102, 117, 110, 100 >> }

\* std::string::substr(pos, count) and substr(pos), for pos <= size
substr(str, pos, count) ==
  SubSeq(str, pos + 1, IF pos + count < Len(str) THEN pos + count ELSE Len(str))

substr_from(str, pos) == SubSeq(str, pos + 1, Len(str))

IsSpace(ch) == ch = 32 \/ (9 <= ch /\ ch <= 13)

IsDigit(ch) == 48 <= ch /\ ch <= 57

RECURSIVE SkipSpace(_, _)
SkipSpace(str, i) ==
  IF i <= Len(str) /\ IsSpace(str[i]) THEN SkipSpace(str, i + 1) ELSE i

\* the digits from position i on, as a number: limbs, or << >> above 2^32 - 1
RECURSIVE ParseDigits(_, _, _)
ParseDigits(str, i, acc) ==
  IF i > Len(str) \/ ~IsDigit(str[i]) THEN acc
  ELSE LET v == Add(Mul(acc, 10), U64(str[i] - 48))
       IN  IF v[3] # 0 \/ v[4] # 0 THEN << >>
           ELSE ParseDigits(str, i + 1, v)

\* std::stoul on the target, where unsigned long has 32 bits: skips white
\* space, takes a sign and the leading digits; no digits, or a number that
\* does not fit, throws.  [ok, value]
stoul(str) ==
  LET i == SkipSpace(str, 1)
      signed == i <= Len(str) /\ (str[i] = 43 \/ str[i] = 45)
      neg == i <= Len(str) /\ str[i] = 45
      j == IF signed THEN i + 1 ELSE i
      v == ParseDigits(str, j, U64(0))
  IN  IF j > Len(str) \/ ~IsDigit(str[j]) \/ v = << >>
      THEN [ok |-> FALSE, value |-> U32(0)]
      ELSE [ok |-> TRUE,
            value |-> IF neg THEN Sub(U32(0), << v[1], v[2] >>)
                             ELSE << v[1], v[2] >>]

TotalWishes_noBonus(wish_count, bonus_bps) == wish_count

\* lines 529-531: the wishes credited for wish_count wishes
TotalWishes(wish_count, bonus_bps) ==
  wish_count + ((wish_count * bonus_bps) \div PROB_SCALE)

\* lines 525-527
PaymentCovers(amount, price_per_wish, wish_count) ==
  LessEq(Mul(price_per_wish, wish_count), amount)

on_transfer(first_receiver, from, to, quantity, memo) ==
  LET conf == conf_table[1]
      funding == /\ first_receiver = conf.arcade_contract
                 /\ quantity.symbol = conf.arcade_symbol
                 /\ memo \in TreasuryMemos
      parsed == stoul(substr_from(memo, 7))
      wish_count == parsed.value[1]
      good_count == /\ parsed.value[2] = 0
                    /\ wish_count > 0 /\ wish_count <= MAX_WISH_COUNT
      token == tokens[quantity.symbol]
      err == FirstError(<<
          << parsed.ok, "Invalid wish count in memo" >>,
          << good_count, "Invalid wish count" >>,
          << Has(tokens, quantity.symbol), "Token not accepted" >>,
          << Has(tokens, quantity.symbol) /\ token.enabled,
             "Token currently disabled" >>,
          << Has(tokens, quantity.symbol) /\ token.contract = first_receiver,
             "Wrong token contract" >>,
          << Has(tokens, quantity.symbol) /\ good_count
               /\ PaymentCovers(quantity.amount, token.price_per_wish, wish_count),
             "Insufficient payment" >> >>)
      total_wishes == TotalWishes(wish_count, token.bonus_bps)
  IN  IF to # Self \/ from = Self \/ conf_table = << >>
      THEN last' = Ok("on_transfer") /\ UNCHANGED << now, tables, resolved >>
      ELSE IF funding
      THEN /\ LessEq(Add(conf.treasury_balance, quantity.amount),
                     Mul(TOKENS_250, MaxTreasury))
           /\ conf_table' = << [conf EXCEPT !.treasury_balance =
                                  Add(@, quantity.amount)] >>
           /\ last' = Ok("fund")
           /\ UNCHANGED << now, tokens, users, commits, history, leaderboard,
                           glob_table, resolved >>
      ELSE IF substr(memo, 0, 7) # WISHES_PREFIX
      THEN last' = Ok("on_transfer") /\ UNCHANGED << now, tables, resolved >>
      ELSE IF err # ""
      THEN last' = Fail("purchase", err) /\ UNCHANGED << now, tables, resolved >>
      ELSE /\ users' =
                IF ~Has(users, from)
                THEN Put(users, from,
                         [user0(from) EXCEPT !.purchased_wishes = total_wishes])
                ELSE [users EXCEPT ![from].purchased_wishes = @ + total_wishes]
           /\ last' = Ok("purchase")
           /\ UNCHANGED << now, conf_table, tokens, commits, history,
                           leaderboard, glob_table, resolved >>

FirstByTime_newest(rows) ==
  CHOOSE c \in rows :
    \A d \in rows : c.timestamp > d.timestamp
                      \/ (c.timestamp = d.timestamp /\ c.id >= d.id)

\* the bytime index: rows by timestamp, then by id
FirstByTime(rows) ==
  CHOOSE c \in rows :
    \A d \in rows : c.timestamp < d.timestamp
                      \/ (c.timestamp = d.timestamp /\ c.id <= d.id)

Expired_atWindow(row) == now - row.timestamp >= COMMIT_EXPIRY_SECONDS

\* line 570
Expired(row) == now - row.timestamp > COMMIT_EXPIRY_SECONDS

\* lines 572-579: the accounts after the refund for a removed row
Refund(us, row) ==
  IF row.wish_type = WISH_TYPE_PURCHASED /\ Has(us, row.player)
  THEN [us EXCEPT ![row.player].purchased_wishes = @ + 1]
  ELSE us

\* lines 568-585: << commits, users, erased >> when the loop ends
RECURSIVE Sweep(_, _, _, _)
Sweep(rows, us, erased, max_clean) ==
  IF rows = {} \/ Len(erased) >= max_clean THEN << rows, us, erased >>
  ELSE LET row == FirstByTime(rows)
       IN  IF Expired(row)
           THEN Sweep(rows \ {row}, Refund(us, row),
                      Append(erased, [id |-> row.id, by |-> "cleanup"]),
                      max_clean)
           ELSE << rows, us, erased >>

cleanup(max_clean) ==
  IF conf_table = << >>
  THEN last' = Fail("cleanup", "Contract not configured")
       /\ UNCHANGED << now, tables, resolved >>
  ELSE LET swept == Sweep(commits, users, << >>, max_clean)
       IN  /\ commits' = swept[1]
           /\ users' = swept[2]
           /\ resolved' = resolved \o swept[3]
           /\ last' = Ok("cleanup")
           /\ UNCHANGED << now, conf_table, tokens, history, leaderboard,
                           glob_table >>

withdraw(to, quantity) ==
  LET conf == conf_table[1]
      err == FirstError(<<
          << conf_table # << >>, "Contract not configured" >>,
          << conf_table # << >> /\ quantity.symbol = conf.arcade_symbol,
             "Wrong token symbol" >>,
          << conf_table # << >> /\ LessEq(quantity.amount, conf.treasury_balance),
             "Insufficient treasury" >> >>)
  IN  IF err # ""
      THEN last' = Fail("withdraw", err) /\ UNCHANGED << now, tables, resolved >>
      ELSE /\ LessEq(conf.treasury_balance, Mul(TOKENS_250, MaxTreasury))
           /\ conf_table' = << [conf EXCEPT !.treasury_balance =
                                  Sub(@, quantity.amount)] >>
           /\ last' = Ok("withdraw")
           /\ UNCHANGED << now, tokens, users, commits, history, leaderboard,
                           glob_table, resolved >>

\* the transfers the contract is notified of: << first receiver, quantity,
\* memo >> with the memos "fund", "WISHES:1" and "hi"
Transfers ==
  { << "arcade.token", [amount |-> TOKENS_250, symbol |-> "ARCADE"],
       << 102, 117, 110, 100 >> >>,
    << "eosio.token", [amount |-> U64(100), symbol |-> "TLOS"],
       WISHES_PREFIX \o << 49 >> >>,
    << "eosio.token", [amount |-> U64(100), symbol |-> "TLOS"],
       << 104, 105 >> >> }

WithdrawQuantities ==
  { [amount |-> TOKENS_250, symbol |-> "ARCADE"],
    [amount |-> TOKENS_500, symbol |-> "ARCADE"] }

\* the << secret, content id >> pairs a revealer passes
RevealArgs == { << << 115 >>, << 81 >> >>, << << 116 >>, << 81 >> >>,
                << << 115 >>, << 82 >> >> }

\* the most rows one cleanup call is asked to remove
MaxClean == 2

\* a purchase leaves the payer with at most cap purchased wishes
CreditsWithin(from, cap) ==
  users' = users \/ users'[from].purchased_wishes <= cap

Next ==
  \/ \E t \in TimePoints : Tick(t)
  \/ \E a \in Admins, w \in WeightChoices :
       setconfig(a, "arcade.token", "ARCADE", w)
  \/ \E p \in BOOLEAN : setpause(p)
  \/ settoken("TLOS", "eosio.token", U64(100), 0, TRUE)
  \/ \E p \in Players, h \in CommitHashes, wt \in WishTypes :
       commit(p, h, wt)
  \/ \E p \in Players, id \in 1..MaxCommits, sc \in RevealArgs,
        tp \in TaposChoices :
       reveal(p, id, sc[1], sc[2], tp)
  \/ \E from \in Players, tr \in Transfers :
       on_transfer(tr[1], from, Self, tr[2], tr[3])
         /\ CreditsWithin(from, MaxCredits)
  \/ \E n \in 0..MaxClean : cleanup(n)
  \/ \E to \in Admins, q \in WithdrawQuantities : withdraw(to, q)

Spec == Init /\ [][Next]_vars

\* setconfig alone, over weights from the whole uint32_t range: 0, 1, 10000
\* and 2^32 - 1
WideWeights == { U32(0), U32(1), U32(PROB_SCALE), << 65535, 65535 >> }

NextConfig ==
  \E a \in Admins, w1, w2, w3, w4, w5 \in WideWeights :
    setconfig(a, "arcade.token", "ARCADE", << w1, w2, w3, w4, w5 >>)

SpecConfig == Init /\ [][NextConfig]_vars

\* The game alone, over the first two blocks of successive days, under
\* several configurations and block prefixes.  With the secret "s" the prefixes give alice the draws 1999,
\* 2000, 9999, 3568, 3910 and 4737, and bob 8737, 5908, 9485, 9370, 9557
\* and 345.
MaxDays == 1

GameTimes ==
  { T0 + (SECONDS_PER_DAY * d) + (SECONDS_PER_BLOCK * k) :
      d \in 0..MaxDays, k \in 0..1 }

GameWeights ==
  { DefaultWeights,
    << U32(0), U32(0), U32(0), U32(0), U32(0) >>,
    << U32(PROB_SCALE), U32(0), U32(0), U32(0), U32(0) >>,
    << U32(0), U32(5000), U32(0), U32(5000), U32(0) >> }

GameTapos == { 26788, 30194, 72658, 3, 141, 10 }

NextGame ==
  \/ \E t \in GameTimes : Tick(t)
  \/ \E a \in Admins, w \in GameWeights :
       setconfig(a, "arcade.token", "ARCADE", w)
  \/ \E p \in Players, h \in CommitHashes,
        wt \in {WISH_TYPE_FREE, WISH_TYPE_PURCHASED} :
       commit(p, h, wt)
  \/ \E p \in Players, id \in 1..MaxCommits, tp \in GameTapos :
       reveal(p, id, << 115 >>, << 81 >>, tp)

SpecGame == Init /\ [][NextGame]_vars

\* The game with one configuration, one secret and one block prefix: every
\* reveal of a player has the same secret, entropy, player and weights, and
\* the accounts, the treasury, the history and the other commits vary.
NextReplay ==
  \/ \E t \in GameTimes : Tick(t)
  \/ \E a \in Admins, w \in WeightChoices :
       setconfig(a, "arcade.token", "ARCADE", w)
  \/ settoken("TLOS", "eosio.token", U64(100), 0, TRUE)
  \/ \E from \in Players, tr \in Transfers :
       on_transfer(tr[1], from, Self, tr[2], tr[3])
         /\ CreditsWithin(from, MaxCredits)
  \/ \E p \in Players, h \in CommitHashes,
        wt \in {WISH_TYPE_FREE, WISH_TYPE_PURCHASED} :
       commit(p, h, wt)
  \/ \E p \in Players, id \in 1..MaxCommits, tp \in TaposChoices :
       reveal(p, id, << 115 >>, << 81 >>, tp)

SpecReplay == Init /\ [][NextReplay]_vars


(***************************************************************************)
(* Properties.                                                             *)
(***************************************************************************)
Configured == conf_table # << >>

TreasuryBalance == conf_table[1].treasury_balance

NextCommitId == IF glob_table # << >> THEN glob_table[1].next_commit_id ELSE 1

NextResultId == IF glob_table # << >> THEN glob_table[1].next_result_id ELSE 1

Revealed == last'.op = "reveal" /\ last'.err = ""

Erased == commits \ commits'

\* C1: each player owns at most one live row of the commits table in every
\* reachable state, and no step adds a row for a player who has one: such a
\* commit fails.
C1_OnePendingPerPlayer ==
  [][\A p \in Players :
       /\ Cardinality({ c \in commits' : c.player = p }) <= 1
       /\ PendingOf(p) # {} =>
            /\ { c \in commits' \ commits : c.player = p } = {}
            /\ last'.op = "commit" =>
                 \A h \in CommitHashes, wt \in WishTypes :
                   commit(p, h, wt) => last'.err # "" /\ UNCHANGED tables]_vars

C1_Witness ==
  /\ last = Fail("commit", "You have a pending commit - reveal or wait for expiry")
  /\ \E p \in Players :
       /\ Cardinality(PendingOf(p)) = 1
       /\ Has(users, p) /\ users[p].purchased_wishes > 0

\* C2: a reveal that pays tokens never takes more from treasury_balance than
\* it holds (the unsigned balance does not wrap around).
C2_PayoutWithinTreasury ==
  [][Revealed =>
       LessEq(history'[Len(history')].tokens_won, TreasuryBalance)]_vars

\* C3: a reveal whose digest of secret and content id differs from the
\* stored commit hash fails and leaves every table, the row included, as it
\* was.
C3_HashMismatchFails ==
  [][last'.op = "reveal" =>
       \A p \in Players, id \in 1..MaxCommits, sc \in RevealArgs,
          tp \in TaposChoices :
         ( /\ \E row \in commits :
                row.id = id /\ row.commit_hash # sha256(sc[1] \o sc[2])
           /\ reveal(p, id, sc[1], sc[2], tp) )
         => last'.err # "" /\ UNCHANGED tables]_vars

C3_Witness ==
  /\ last = Fail("reveal", "Hash mismatch - invalid secret or CID")
  /\ commits # {}

\* C4: a reveal succeeds only in a block after the block of the commit
\* (block = seconds since epoch divided by 2); in the block of the commit it
\* fails and changes no table.
C4_RevealAfterCommitBlock ==
  [][/\ Revealed =>
          \A row \in Erased :
            now \div SECONDS_PER_BLOCK > row.timestamp \div SECONDS_PER_BLOCK
     /\ last'.op = "reveal" =>
          \A p \in Players, id \in 1..MaxCommits, sc \in RevealArgs,
             tp \in TaposChoices :
            ( /\ \E row \in commits :
                   /\ row.id = id
                   /\ now \div SECONDS_PER_BLOCK = row.timestamp \div SECONDS_PER_BLOCK
              /\ reveal(p, id, sc[1], sc[2], tp) )
            => last'.err # "" /\ UNCHANGED tables]_vars

C4_Witness ==
  /\ last = Fail("reveal", "Must wait at least 1 block")
  /\ history # << >>
  /\ \E row \in commits : row.timestamp < now

\* C5: a row of the commits table is erased at most once, by one reveal or by
\* one cleanup, and an erased id is never live again: one commitment gives
\* at most one payout or one refund, never both.
C5_ResolvedAtMostOnce ==
  /\ \A i, j \in 1..Len(resolved) : resolved[i].id = resolved[j].id => i = j
  /\ \A i \in 1..Len(resolved) : \A row \in commits : row.id # resolved[i].id
  /\ Len(history) = Cardinality({ i \in 1..Len(resolved) : resolved[i].by = "reveal" })

C5_Witness ==
  /\ Len(resolved) = 2
  /\ resolved[1].by = "reveal" /\ resolved[2].by = "cleanup"
  /\ last.op = "reveal" /\ last.err # ""

\* C6: a successful reveal appends exactly one gamehistory row, with the next
\* result id, the player, the outcome code and its reward, whatever the
\* outcome; no step changes or removes an existing row.
RewardOf(result_code) ==
  CASE result_code = OUTCOME_TOKENS_250 -> TOKENS_250
    [] result_code = OUTCOME_TOKENS_500 -> TOKENS_500
    [] result_code = OUTCOME_TOKENS_1000 -> TOKENS_1000
    [] OTHER -> U64(0)

C6_OneResultPerReveal ==
  [][/\ Len(history') >= Len(history)
     /\ SubSeq(history', 1, Len(history)) = history
     /\ IF Revealed
        THEN /\ Len(history') = Len(history) + 1
             /\ LET g == history'[Len(history')]
                IN  /\ g.id = NextResultId
                    /\ \E row \in Erased : g.player = row.player
                    /\ g.result_code \in OUTCOME_WISH_GRANTED..OUTCOME_TRY_AGAIN
                    /\ g.tokens_won = RewardOf(g.result_code)
        ELSE history' = history]_vars

C6_Witness ==
  /\ last = Ok("reveal")
  /\ Len(history) = 2
  /\ history[1].result_code = OUTCOME_TOKENS_250
  /\ history[2].result_code = OUTCOME_TRY_AGAIN

\* C7: after a successful setconfig the five stored weights sum, as
\* mathematical integers, to at most 10000; weights with a larger true sum
\* are rejected.
Wide(a) == a \o << 0 >>

StoredWeightSum ==
  LET c == conf_table[1]
  IN  Add(Add(Add(Add(Wide(c.prob_win), Wide(c.prob_tokens_250)),
                  Wide(c.prob_tokens_500)), Wide(c.prob_tokens_1000)),
          Wide(c.prob_free_spin))

C7_WeightSumWithinScale ==
  Configured => LessEq(StoredWeightSum, Wide(U32(PROB_SCALE)))

\* C8: cleanup erases no row whose age, now minus its timestamp, is at most
\* the expiry window of 3600 seconds.
C8_SweepOnlyExpired ==
  [][last'.op = "cleanup" =>
       \A row \in Erased : now - row.timestamp > COMMIT_EXPIRY_SECONDS]_vars

C8_Witness ==
  /\ last = Ok("cleanup")
  /\ resolved # << >> /\ resolved[Len(resolved)].by = "cleanup"
  /\ \E row \in commits :
       /\ row.timestamp < now
       /\ now - row.timestamp <= COMMIT_EXPIRY_SECONDS

\* C9: when cleanup erases rows, each owner's purchased_wishes grows by the
\* number of the owner's erased rows for which commit took a purchased wish,
\* that is whose wish_type is not WISH_TYPE_FREE.
C9_RefundIffPurchased ==
  [][(last'.op = "cleanup" /\ last'.err = "") =>
       \A p \in DOMAIN users :
         users'[p].purchased_wishes - users[p].purchased_wishes =
           Cardinality({ row \in Erased :
                           row.player = p /\ row.wish_type # WISH_TYPE_FREE })]_vars

\* C10: a funding transfer of X takes the tracked balance from B to B + X,
\* a withdraw of Y at most the tracked balance takes it down by Y, and a
\* withdraw of more fails and leaves it as it was.
C10_FundThenWithdraw ==
  [][/\ last'.op = "fund" =>
          \A from \in Players, tr \in Transfers :
            on_transfer(tr[1], from, Self, tr[2], tr[3]) =>
              /\ TreasuryBalance' = Add(TreasuryBalance, tr[2].amount)
              /\ ~Less(TreasuryBalance', TreasuryBalance)
     /\ last'.op = "withdraw" =>
          \A to \in Admins, q \in WithdrawQuantities :
            withdraw(to, q) =>
              IF Configured /\ LessEq(q.amount, TreasuryBalance)
              THEN last'.err = "" /\ TreasuryBalance' = Sub(TreasuryBalance, q.amount)
              ELSE last'.err # "" /\ UNCHANGED tables]_vars

\* C11: a commit fails and changes no table when its wish source is not
\* available: a free wish already taken on the current day, or a purchased
\* wish with no account or no credit.  A successful free commit marks the
\* current day as used and a successful purchased one takes one credit, so
\* that a day gives each player one free commit and no credit goes below 0.
C11_WishSourceAvailable ==
  [][/\ \A p \in DOMAIN users' :
          /\ users'[p].purchased_wishes >= 0
          /\ users'[p].last_free_day <= now' \div SECONDS_PER_DAY
     /\ last'.op = "commit" =>
          \A p \in Players, h \in CommitHashes, wt \in WishTypes :
            commit(p, h, wt) =>
              LET today == now \div SECONDS_PER_DAY
                  free_used == Has(users, p) /\ users[p].last_free_day >= today
                  no_credit == ~Has(users, p) \/ users[p].purchased_wishes = 0
              IN  /\ (wt = WISH_TYPE_FREE /\ free_used) =>
                       last'.err # "" /\ UNCHANGED tables
                  /\ (wt # WISH_TYPE_FREE /\ no_credit) =>
                       last'.err # "" /\ UNCHANGED tables
                  /\ (wt = WISH_TYPE_FREE /\ last'.err = "") =>
                       users'[p].last_free_day = today
                  /\ (wt # WISH_TYPE_FREE /\ last'.err = "") =>
                       users'[p].purchased_wishes = users[p].purchased_wishes - 1]_vars

C11_Witness ==
  /\ last = Fail("commit", "Free wish already used today")
  /\ commits = {}
  /\ history # << >>
  /\ \E p \in DOMAIN users :
       /\ users[p].last_free_day = current_day_number
       /\ users[p].purchased_wishes = 0

\* C12: a commit rejected for a pending commitment leaves the accounts
\* (credit and last free day), the commit counter, the commits table and
\* every other table as they were before the call.
C12_PendingRejectionAtomic ==
  [][(last'.op = "commit" /\ last'.err = PENDING_COMMIT) =>
       /\ users' = users
       /\ glob_table' = glob_table
       /\ commits' = commits
       /\ UNCHANGED tables]_vars

C12_Witness ==
  /\ last = Fail("commit", PENDING_COMMIT)
  /\ \E p \in DOMAIN users :
       /\ PendingOf(p) # {}
       /\ \A q \in Players \ {p} : PendingOf(q) = {}
       /\ users[p].purchased_wishes > 0
       /\ users[p].last_free_day < current_day_number

\* the purchased wishes of a player, 0 without an account
Credit(us, p) == IF Has(us, p) THEN us[p].purchased_wishes ELSE 0

\* C18: a successful commit from the purchased source takes exactly one
\* credit at commit time; a reveal never lowers the credit; a cleanup changes
\* the credit only of owners of rows it removes; no other step, the passing
\* of time over an expired row included, gives a taken credit back.
C18_CreditConsumedAtCommit ==
  [][\A p \in Players :
       LET added == { c \in commits' \ commits : c.player = p }
           swept == { c \in Erased : c.player = p }
       IN  /\ (last'.op = "commit" /\ last'.err = "") =>
                Credit(users', p) = Credit(users, p)
                  - Cardinality({ c \in added : c.wish_type # WISH_TYPE_FREE })
           /\ last'.op = "reveal" => Credit(users', p) >= Credit(users, p)
           /\ last'.op = "cleanup" =>
                (Credit(users', p) # Credit(users, p) => swept # {})
           /\ (last'.op \notin {"commit", "reveal", "cleanup", "purchase"}
                 \/ last'.err # "") =>
                Credit(users', p) = Credit(users, p)]_vars

C18_Witness ==
  /\ last = Ok("tick")
  /\ \E row \in commits :
       /\ row.wish_type # WISH_TYPE_FREE
       /\ now - row.timestamp > COMMIT_EXPIRY_SECONDS
       /\ Credit(users, row.player) = 0

\* C20: commit ids come from a counter that never decreases: a new row gets
\* the counter's value, above every live and every removed id, and the
\* counter then moves one up; every live or removed id is below the counter;
\* a step that adds no row, a failed commit included, leaves the counter.
C20_CommitIdsIncrease ==
  [][/\ NextCommitId' >= NextCommitId
     /\ \A c \in commits' : c.id < NextCommitId'
     /\ \A i \in 1..Len(resolved') : resolved'[i].id < NextCommitId'
     /\ \A c \in commits' \ commits :
          /\ c.id = NextCommitId
          /\ NextCommitId' = c.id + 1
          /\ \A d \in commits : d.id < c.id
          /\ \A i \in 1..Len(resolved) : resolved[i].id < c.id
     /\ commits' \ commits = {} => NextCommitId' = NextCommitId
     /\ (last'.op = "commit" /\ last'.err # "") =>
          NextCommitId' = NextCommitId]_vars

C20_Witness ==
  /\ last.op = "commit" /\ last.err # ""
  /\ NextCommitId = 3
  /\ resolved # << >>
  /\ \E c \in commits : c.id = 2

\* the five weights of a configuration as numbers (each below 2^16)
WeightsOf(conf) ==
  << conf.prob_win[1], conf.prob_tokens_250[1], conf.prob_tokens_500[1],
     conf.prob_tokens_1000[1], conf.prob_free_spin[1] >>

SmallWeights(conf) ==
  /\ conf.prob_win[2] = 0 /\ conf.prob_tokens_250[2] = 0
  /\ conf.prob_tokens_500[2] = 0 /\ conf.prob_tokens_1000[2] = 0
  /\ conf.prob_free_spin[2] = 0
  /\ LET w == WeightsOf(conf)
     IN  w[1] + w[2] + w[3] + w[4] + w[5] <= PROB_SCALE

RECURSIVE Cumulative(_, _)
Cumulative(w, i) == IF i = 0 THEN 0 ELSE Cumulative(w, i - 1) + w[i]

\* the first bucket, 1 to 5, whose cumulative weight exceeds d; 6 when none
Bucket(w, d) ==
  IF \E i \in 1..5 : d < Cumulative(w, i)
  THEN CHOOSE i \in 1..5 :
         d < Cumulative(w, i) /\ \A j \in 1..(i - 1) : d >= Cumulative(w, j)
  ELSE 6

\* the ends of the draw range and the draws on both sides of each threshold
BoundaryDraws(w) ==
  ({0, PROB_SCALE - 1}
     \cup { Cumulative(w, i) - 1 : i \in 1..5 }
     \cup { Cumulative(w, i) : i \in 1..5 }) \cap (0..(PROB_SCALE - 1))

\* C13: under weights that sum to at most 10000 the outcome of a draw d is
\* the first bucket, in the order granted, 250, 500, 1000, free spin, whose
\* cumulative weight exceeds d, and no-win when there is none; the reward is
\* the bucket's token prize and 0 for the other outcomes; a reveal records
\* that outcome for its draw; with 2000/1000/800/200/1000 the draws 1999,
\* 2000 and 9999 give granted, 250 tokens and no-win.
C13_FirstBucketAboveDraw ==
  [][/\ (last'.op = "setconfig" /\ last'.err = ""
           /\ SmallWeights(conf_table'[1])
           /\ (Configured => WeightsOf(conf_table[1]) # WeightsOf(conf_table'[1]))) =>
          LET conf == conf_table'[1]
              w == WeightsOf(conf)
          IN  /\ \A d \in BoundaryDraws(w) :
                   LET code == Bucket(w, d) - 1
                   IN  Outcome(conf, d) = << code, RewardOf(code) >>
              /\ w = << 2000, 1000, 800, 200, 1000 >> =>
                   /\ Outcome(conf, 1999) = << OUTCOME_WISH_GRANTED, U64(0) >>
                   /\ Outcome(conf, 2000) = << OUTCOME_TOKENS_250, TOKENS_250 >>
                   /\ Outcome(conf, 9999) = << OUTCOME_TRY_AGAIN, U64(0) >>
     /\ (Revealed /\ SmallWeights(conf_table[1])) =>
          \A row \in Erased, tp \in GameTapos :
            reveal(row.player, row.id, << 115 >>, << 81 >>, tp) =>
              LET w == WeightsOf(conf_table[1])
                  code == Bucket(w, random_value(<< 115 >>, tp, row.player)) - 1
                  g == history'[Len(history')]
              IN  /\ g.result_code = code
                  /\ g.tokens_won = RewardOf(code)
                  /\ g.tokens_won # U64(0) <=>
                       code \in {OUTCOME_TOKENS_250, OUTCOME_TOKENS_500,
                                 OUTCOME_TOKENS_1000}]_vars

C13_Witness ==
  /\ last = Ok("reveal")
  /\ WeightsOf(conf_table[1]) = << 2000, 1000, 800, 200, 1000 >>
  /\ Len(history) = 2
  /\ history[1].player = "alice" /\ history[1].result_code = OUTCOME_WISH_GRANTED
  /\ history[2].player = "alice" /\ history[2].result_code = OUTCOME_TOKENS_250

\* C14: with the secret, the block prefix and the weights fixed, every
\* reveal of one player records the same outcome code and the same reward,
\* whatever the accounts, the treasury, the history, the leaderboard and the
\* other players' commits are when it runs.
C14_OutcomeOfInputsOnly ==
  \A i, j \in 1..Len(history) :
    history[i].player = history[j].player =>
      /\ history[i].result_code = history[j].result_code
      /\ history[i].tokens_won = history[j].tokens_won

C14_Witness ==
  /\ last = Ok("reveal")
  /\ Len(history) = 2
  /\ history[1].player = "bob" /\ history[2].player = "bob"
  /\ history[2].result_code = OUTCOME_TOKENS_250
  /\ users["bob"].total_wishes = 2
  /\ TreasuryBalance # U64(0)

\* the rewards of the first n records that belong to player p, added up
RECURSIVE RewardSum(_, _)
RewardSum(p, n) ==
  IF n = 0 THEN U64(0)
  ELSE Add(RewardSum(p, n - 1),
           IF history[n].player = p THEN history[n].tokens_won ELSE U64(0))

\* C17: a player's leaderboard row counts the player's granted records in
\* wins and holds the sum of the rewards of the player's records; the row
\* exists exactly when a record of the player is granted or has a reward.
C17_LeaderboardAggregates ==
  \A p \in Players :
    LET recs == { i \in 1..Len(history) : history[i].player = p }
        wins == { i \in recs : history[i].result_code = OUTCOME_WISH_GRANTED }
        paid == { i \in recs : history[i].tokens_won # U64(0) }
    IN  /\ Has(leaderboard, p) <=> (wins \cup paid) # {}
        /\ Has(leaderboard, p) =>
             /\ leaderboard[p].wins = Cardinality(wins)
             /\ leaderboard[p].tokens_won = RewardSum(p, Len(history))

C17_Witness ==
  /\ Len(history) = 2
  /\ \E p \in Players :
       /\ history[1].player = p /\ history[2].player = p
       /\ Has(leaderboard, p)
       /\ leaderboard[p].wins = 1
       /\ leaderboard[p].tokens_won = TOKENS_1000

(***************************************************************************)
(* Wish purchases alone: one payer, token settings over the range of the  *)
(* price and of the bonus, and memos around the limits of the wish count.  *)
(***************************************************************************)
\* a purchase is made by a payer who holds at most this many wishes
MaxHeld == 2

Payers == {"alice"}

\* 100 and 2^63 units a wish
PurchasePrices == { U64(100), << 0, 0, 0, 32768 >> }

PurchaseBonus == { 0, 1, 3334, 10000, 65535 }

\* "WISHES:" followed by 0, 1, 2, 1000 and 1001
PurchaseMemos ==
  { WISHES_PREFIX \o digits :
      digits \in { << 48 >>, << 49 >>, << 50 >>, << 49, 48, 48, 48 >>,
                   << 49, 48, 48, 49 >> } }

\* 100 and 100000 units
PurchaseAmounts == { U64(100), << 34464, 1, 0, 0 >> }

NextPurchase ==
  \/ \E a \in Admins, w \in WeightChoices :
       setconfig(a, "arcade.token", "ARCADE", w)
  \/ \E price \in PurchasePrices, bonus \in PurchaseBonus, enabled \in BOOLEAN :
       settoken("TLOS", "eosio.token", price, bonus, enabled)
  \/ \E from \in Payers, amount \in PurchaseAmounts, memo \in PurchaseMemos :
       /\ on_transfer("eosio.token", from, Self,
                      [amount |-> amount, symbol |-> "TLOS"], memo)
       /\ Credit(users, from) <= MaxHeld

SpecPurchase == Init /\ [][NextPurchase]_vars

\* the decimal digits of a string as a number
RECURSIVE Decimal(_, _)
Decimal(str, n) ==
  IF n = 0 THEN 0 ELSE (Decimal(str, n - 1) * 10) + (str[n] - 48)

\* the wish count a purchase memo asks for
Requested(memo) == Decimal(substr_from(memo, 7), Len(memo) - 7)

\* C15: a successful purchase of n wishes, 1 <= n <= 1000, with an accepted
\* and enabled token adds n + floor(n * bonus_bps / 10000) to the payer's
\* purchased wishes and changes nothing else; with n = 0 or n > 1000 the
\* purchase fails and changes no table.
C15_PurchaseCredit ==
  [][last'.op = "purchase" =>
       \A from \in Payers, amount \in PurchaseAmounts, memo \in PurchaseMemos :
         on_transfer("eosio.token", from, Self,
                     [amount |-> amount, symbol |-> "TLOS"], memo) =>
           LET n == Requested(memo)
               credited == n + ((n * tokens["TLOS"].bonus_bps) \div PROB_SCALE)
           IN  /\ (n = 0 \/ n > MAX_WISH_COUNT) => last'.err # ""
               /\ IF last'.err = ""
                  THEN /\ n >= 1 /\ n <= MAX_WISH_COUNT
                       /\ tokens["TLOS"].enabled
                       /\ users' = Put(users, from,
                                       [(IF Has(users, from) THEN users[from]
                                         ELSE user0(from))
                                          EXCEPT !.purchased_wishes = @ + credited])
                       /\ UNCHANGED << conf_table, tokens, commits, history,
                                       leaderboard, glob_table >>
                  ELSE UNCHANGED tables]_vars

C15_Witness ==
  /\ last = Ok("purchase")
  /\ Has(tokens, "TLOS") /\ tokens["TLOS"].bonus_bps = 65535
  /\ Credit(users, "alice") = 1 + 1000 + 6553

\* C16: a purchase succeeds only when the amount transferred is at least the
\* price of a wish times the wish count, taken as a product of mathematical
\* integers (here over five limbs, which hold every product of a 64-bit
\* price and a count up to 1000).
C16_PaymentCoversPrice ==
  [][(last'.op = "purchase" /\ last'.err = "") =>
       \A from \in Payers, amount \in PurchaseAmounts, memo \in PurchaseMemos :
         on_transfer("eosio.token", from, Self,
                     [amount |-> amount, symbol |-> "TLOS"], memo) =>
           LessEq(Mul(Wide(tokens["TLOS"].price_per_wish), Requested(memo)),
                  Wide(amount))]_vars

(***************************************************************************)
(* The sweep alone: free commits in the first two blocks, the clock then   *)
(* past the expiry of the first and of the second block's commits, and     *)
(* cleanup called again and again with max_clean >= 1.                     *)
(***************************************************************************)
SweepTimes ==
  { T0 + d : d \in { 0, SECONDS_PER_BLOCK, COMMIT_EXPIRY_SECONDS + 1,
                     COMMIT_EXPIRY_SECONDS + 1 + SECONDS_PER_BLOCK } }

NextSweep ==
  \/ \E t \in SweepTimes : Tick(t)
  \/ \E a \in Admins, w \in WeightChoices :
       setconfig(a, "arcade.token", "ARCADE", w)
  \/ \E p \in Players, h \in CommitHashes : commit(p, h, WISH_TYPE_FREE)
  \/ \E n \in 0..MaxClean : cleanup(n)

SpecSweep ==
  /\ Init
  /\ [][NextSweep]_vars
  /\ WF_vars(\E n \in 1..MaxClean : cleanup(n))

ExpiredRows == { r \in commits : now - r.timestamp > COMMIT_EXPIRY_SECONDS }

Min(a, b) == IF a < b THEN a ELSE b

\* C19: cleanup(max_clean) removes min(max_clean, number of expired rows)
\* rows, all expired and none newer than a row it leaves; and when cleanup
\* keeps being called with max_clean >= 1, every expired row is removed in
\* the end.
C19_SweepRemovesOldestExpired ==
  /\ [][(last'.op = "cleanup" /\ last'.err = "") =>
          \A n \in 0..MaxClean :
            cleanup(n) =>
              /\ Cardinality(Erased) = Min(n, Cardinality(ExpiredRows))
              /\ Erased \subseteq ExpiredRows
              /\ commits' = commits \ Erased
              /\ \A e \in Erased, r \in commits' : e.timestamp <= r.timestamp]_vars
  /\ \A id \in 1..MaxCommits :
       (\E r \in ExpiredRows : r.id = id) ~> (\A r \in commits : r.id # id)

C19_Witness ==
  /\ last = Ok("cleanup")
  /\ Len(resolved) = 1 /\ resolved[1].by = "cleanup"
  /\ \E r \in ExpiredRows : r.id > resolved[1].id

Paused == Configured /\ conf_table[1].paused

\* C21: while the pause flag is set every commit and every reveal fails and
\* changes no table, so a pending row stays unrevealed; cleanup still
\* removes the expired rows it is asked for, a purchase and a funding
\* transfer still go through, and a withdraw fails only for an amount above
\* the treasury.
C21_PauseBlocksGameOnly ==
  [][Paused =>
       /\ last'.op \in {"commit", "reveal"} =>
            last'.err = "Game is paused" /\ UNCHANGED tables
       /\ last'.op = "cleanup" =>
            /\ last'.err = ""
            /\ \A n \in 0..MaxClean :
                 cleanup(n) =>
                   Cardinality(Erased) = Min(n, Cardinality(ExpiredRows))
       /\ last'.op = "purchase" =>
            (Has(tokens, "TLOS") =>
               /\ last'.err = ""
               /\ \E p \in Players : Credit(users', p) = Credit(users, p) + 1)
       /\ last'.op = "fund" =>
            last'.err = "" /\ TreasuryBalance' = Add(TreasuryBalance, TOKENS_250)
       /\ last'.op = "withdraw" =>
            \A to \in Admins, q \in WithdrawQuantities :
              withdraw(to, q) =>
                (last'.err = "" <=> LessEq(q.amount, TreasuryBalance))]_vars

C21_Witness ==
  /\ Paused
  /\ last = Fail("reveal", "Game is paused")
  /\ \E row \in commits :
       /\ now \div SECONDS_PER_BLOCK > row.block_num
       /\ row.commit_hash = sha256(<< 115 >> \o << 81 >>)

\* C23: a row older than the expiry window that cleanup has not removed is
\* still revealed by its owner with the right secret: the reveal succeeds,
\* records its outcome and takes the reward from the treasury; until a
\* reveal or a cleanup removes the row it stays in the table, and a commit
\* of its owner fails.
C23_RevealHasNoAgeLimit ==
  [][/\ last'.op = "reveal" =>
          \A p \in Players, id \in 1..MaxCommits, sc \in RevealArgs,
             tp \in TaposChoices :
            reveal(p, id, sc[1], sc[2], tp) =>
              \A row \in ExpiredRows :
                ( /\ row.id = id /\ row.player = p
                  /\ row.commit_hash = sha256(sc[1] \o sc[2])
                  /\ ~Paused ) =>
                  /\ last'.err = ""
                  /\ row \notin commits'
                  /\ Len(history') = Len(history) + 1
                  /\ LET g == history'[Len(history')]
                     IN  /\ g.player = p
                         /\ g.tokens_won = RewardOf(g.result_code)
                         /\ TreasuryBalance' = Sub(TreasuryBalance, g.tokens_won)
     /\ last'.op = "commit" =>
          \A p \in Players, h \in CommitHashes, wt \in WishTypes :
            (commit(p, h, wt) /\ \E row \in ExpiredRows : row.player = p) =>
              last'.err # "" /\ UNCHANGED tables
     /\ last'.op \notin {"reveal", "cleanup"} =>
          ExpiredRows \subseteq commits']_vars

C23_Witness ==
  /\ last = Ok("reveal")
  /\ history[Len(history)].timestamp = T0 + COMMIT_EXPIRY_SECONDS + 1
  /\ history[Len(history)].tokens_won = TOKENS_250
  /\ resolved[Len(resolved)] = [id |-> 1, by |-> "reveal"]

(***************************************************************************)
(* Reconfiguration: setconfig with two admins, two reward assets and two   *)
(* weight sets, over a contract with a funded treasury, a pause flag,      *)
(* accounts, pending commits and recorded results.                         *)
(***************************************************************************)
AdminChoices == {"admin", "ops"}

\* << token contract, symbol >> of the reward asset
AssetChoices == { << "arcade.token", "ARCADE" >>, << "arcade.next", "ARC" >> }

AdminWeights ==
  { DefaultWeights, << U32(0), U32(5000), U32(0), U32(5000), U32(0) >> }

NextAdmin ==
  \/ \E t \in TimePoints : Tick(t)
  \/ \E a \in AdminChoices, asset \in AssetChoices, w \in AdminWeights :
       setconfig(a, asset[1], asset[2], w)
  \/ \E p \in BOOLEAN : setpause(p)
  \/ \E asset \in AssetChoices :
       on_transfer(asset[1], "alice", Self,
                   [amount |-> TOKENS_250, symbol |-> asset[2]],
                   << 102, 117, 110, 100 >>)
  \/ \E p \in Players, h \in CommitHashes : commit(p, h, WISH_TYPE_FREE)
  \/ \E p \in Players, id \in 1..MaxCommits, tp \in TaposChoices :
       reveal(p, id, << 115 >>, << 81 >>, tp)

SpecAdmin == Init /\ [][NextAdmin]_vars

\* C22: setconfig on a configured contract stores the admin, the reward
\* asset and the five weights it is given and clears the pause flag; the
\* treasury balance, the accounts, the commits, the history, the
\* leaderboard, the token prices and the counters stay as they were.
C22_SetConfigFrame ==
  [][(Configured /\ last'.op = "setconfig" /\ last'.err = "") =>
       \A a \in AdminChoices, asset \in AssetChoices, w \in AdminWeights :
         setconfig(a, asset[1], asset[2], w) =>
           /\ conf_table' = << [conf_table[1] EXCEPT
                   !.admin = a, !.arcade_contract = asset[1],
                   !.arcade_symbol = asset[2], !.paused = FALSE,
                   !.prob_win = w[1], !.prob_tokens_250 = w[2],
                   !.prob_tokens_500 = w[3], !.prob_tokens_1000 = w[4],
                   !.prob_free_spin = w[5]] >>
           /\ TreasuryBalance' = TreasuryBalance
           /\ ~conf_table'[1].paused
           /\ UNCHANGED << now, tokens, users, commits, history, leaderboard,
                           glob_table, resolved >>]_vars

C22_Witness ==
  /\ last = Ok("setconfig")
  /\ conf_table[1].admin = "ops" /\ conf_table[1].arcade_symbol = "ARC"
  /\ TreasuryBalance = TOKENS_250
  /\ commits # {}
  /\ history # << >>

====
